---- MODULE Spec2Model ----
(***************************************************************************)
(* Authentication and account-security subsystem of secure-ecommerce:      *)
(* the express route chain of server/routes/auth.js, the handlers of       *)
(* server/controllers/authController.js and the mongoose User model that   *)
(* follows the server bootstrap in server/index.js.                        *)
(*                                                                         *)
(* Time.  The variable now is the reading of Date.now() in ticks of        *)
(* MsPerTick milliseconds; every duration of the source is a multiple of   *)
(* it, so each is converted exactly by Ticks(ms).  A JWT carries seconds:  *)
(* ToSeconds is the floor the JWT library and parseInt(ms / 1000) take.    *)
(*                                                                         *)
(* One request is one step: the middleware chain of the route (limiters,   *)
(* protect) and the handler, with every save and update the handler makes. *)
(***************************************************************************)
EXTENDS Integers, Sequences, FiniteSets, TLC

(***************************************************************************)
(* Bounds of the model                                                     *)
(***************************************************************************)
\* clock advances in one behaviour
MaxClockSteps == 1
\* requests in one behaviour
MaxRequests == 3
\* documents in the users collection
MaxUsers == 2
\* action-token plaintexts drawn from the random source
MaxTokens == 2
\* entries of one user's securityEvents array
MaxEvents == 2
\* handler calls that overlap
MaxCalls == 5

(***************************************************************************)
(* Time                                                                    *)
(***************************************************************************)
\* the clock is read at half-second resolution
MsPerTick == 1000 \div 2
Ticks(ms) == ms \div MsPerTick
TicksPerSecond == Ticks(1000)
ToSeconds(t) == t \div TicksPerSecond

LockMs == 30 * 60 * 1000
ResetTtlMs == 60 * 60 * 1000
VerificationTtlMs == 24 * 60 * 60 * 1000
PasswordChangedSkewMs == 1000
LockThreshold == 5
JwtExpiresInSeconds == 90 * 24 * 60 * 60

(***************************************************************************)
(* Strings as sequences of character codes                                 *)
(***************************************************************************)
\* "a@x", "A@x", "b@x"
EmailA == <<97, 64, 120>>
EmailAUpper == <<65, 64, 120>>
EmailB == <<98, 64, 120>>
Emails == {EmailA, EmailAUpper, EmailB}

\* the schema's lowercase: true setter (String.prototype.toLowerCase)
LowerCase(s) ==
    [i \in DOMAIN s |-> IF s[i] \in 65..90 THEN s[i] + 32 ELSE s[i]]

\* "Str0ng!P", "NewPass1!", "weakpass"
PwStrong == <<83, 116, 114, 48, 110, 103, 33, 80>>
PwNew == <<78, 101, 119, 80, 97, 115, 115, 49, 33>>
PwWeak == <<119, 101, 97, 107, 112, 97, 115, 115>>
\* a field the request body does not carry
Missing == <<>>
Passwords == {PwStrong, PwNew, PwWeak}

IsDigit(c) == c \in 48..57
IsLower(c) == c \in 97..122
IsUpper(c) == c \in 65..90
\* one of !@#$%^&*
IsSpecial(c) == c \in {33, 64, 35, 36, 37, 94, 38, 42}
Has(s, P(_)) == \E i \in DOMAIN s : P(s[i])

\* /^(?=.*\d)(?=.*[a-z])(?=.*[A-Z])(?=.*[!@#$%^&*])(?=.{8,})/.test(p);
\* a missing field is tested as the string "undefined"
PasswordRegexTest(p) ==
    /\ p # Missing
    /\ Has(p, IsDigit)
    /\ Has(p, IsLower)
    /\ Has(p, IsUpper)
    /\ Has(p, IsSpecial)
    /\ Len(p) >= 8

\* bcrypt.hash(p, 12) and bcrypt.compare(candidate, hash)
NoHash == <<>>
BcryptHash(p) == <<"bcrypt", p>>
BcryptCompare(candidate, hash) == hash = BcryptHash(candidate)

\* crypto.createHash('sha256').update(t).digest('hex'); plaintexts are 1..MaxTokens
NoToken == 0
Sha256(t) == t + 1000

(***************************************************************************)
(* The User document (userSchema)                                          *)
(***************************************************************************)
NoDate == -1
NoIp == "none"
ClientIps == {"ip1", "ip2"}

NewUser(id, email, password) ==
    [ _id |-> id,
      email |-> LowerCase(email),
      password |-> password,
      role |-> "user",
      emailVerified |-> FALSE,
      verificationToken |-> NoToken,
      verificationExpires |-> NoDate,
      passwordChangedAt |-> NoDate,
      passwordResetToken |-> NoToken,
      passwordResetExpires |-> NoDate,
      active |-> TRUE,
      lastLogin |-> NoDate,
      lastLoginIp |-> NoIp,
      loginAttempts |-> 0,
      accountLocked |-> FALSE,
      lockUntil |-> NoDate,
      securityEvents |-> <<>> ]

\* the fields of a stored document that are not undefined
Defined(doc) ==
    {"_id", "email", "password", "role", "emailVerified", "active",
     "loginAttempts", "accountLocked", "securityEvents"}
    \cup (IF doc.verificationToken # NoToken THEN {"verificationToken"} ELSE {})
    \cup (IF doc.verificationExpires # NoDate THEN {"verificationExpires"} ELSE {})
    \cup (IF doc.passwordChangedAt # NoDate THEN {"passwordChangedAt"} ELSE {})
    \cup (IF doc.passwordResetToken # NoToken THEN {"passwordResetToken"} ELSE {})
    \cup (IF doc.passwordResetExpires # NoDate THEN {"passwordResetExpires"} ELSE {})
    \cup (IF doc.lastLogin # NoDate THEN {"lastLogin"} ELSE {})
    \cup (IF doc.lastLoginIp # NoIp THEN {"lastLoginIp"} ELSE {})
    \cup (IF doc.lockUntil # NoDate THEN {"lockUntil"} ELSE {})

\* the paths declared select: false
SelectFalse == {"password", "active"}
\* the fields a find loads: all but the select: false ones, plus those asked for
Projection(doc, plus) == (Defined(doc) \ SelectFalse) \cup plus

(***************************************************************************)
(* State                                                                   *)
(***************************************************************************)
VARIABLES
    users,      \* the users collection: a sequence of documents, _id = index
    now,        \* Date.now(), in ticks
    hits,       \* the store of each rate limiter: limiter -> ip -> window
    sessions,   \* the JWTs signed so far (held by clients)
    nextToken,  \* the next plaintext the random source yields
    resp,       \* the response to the latest request
    reqs,       \* history: requests and model-method calls made so far
    clockSteps, \* history: clock advances so far
    consumed,   \* history: reset plaintexts a resetPassword has succeeded with
    wrongStreak,\* history: per user, the consecutive logins with a wrong password
                \* (count) and the time of the latest of them (at)
    admits,     \* history: route limiter -> ip -> the times of the requests the
                \* limiter let through
    calls       \* the handler calls that overlap: call -> its position and the
                \* document it holds in memory

vars ==
    <<users, now, hits, sessions, nextToken, resp, reqs, clockSteps,
      consumed, wrongStreak, admits, calls>>

UserIds == 1..MaxUsers
NoStreak == [count |-> 0, at |-> NoDate]
Ids == DOMAIN users

(***************************************************************************)
(* Rate limiters (express-rate-limit, one store per rateLimit() call)      *)
(***************************************************************************)
GlobalWindowMs == 15 * 60 * 1000
GlobalMax == 100
LoginWindowMs == 15 * 60 * 1000
LoginMax == 5
SignupWindowMs == 60 * 60 * 1000
SignupMax == 3
PasswordResetWindowMs == 60 * 60 * 1000
PasswordResetMax == 3

Limiters == {"global", "login", "signup", "passwordReset"}
\* the limiters of routes/auth.js
RouteLimiters == {"login", "signup", "passwordReset"}

WindowOf(l) ==
    CASE l = "global" -> Ticks(GlobalWindowMs)
      [] l = "login" -> Ticks(LoginWindowMs)
      [] l = "signup" -> Ticks(SignupWindowMs)
      [] l = "passwordReset" -> Ticks(PasswordResetWindowMs)

MaxOf(l) ==
    CASE l = "global" -> GlobalMax
      [] l = "login" -> LoginMax
      [] l = "signup" -> SignupMax
      [] l = "passwordReset" -> PasswordResetMax

NoWindow == [count |-> 0, resetTime |-> 0]

\* the store's increment for one key: a fresh window when there is none or it has
\* elapsed. A count past max + 1 is kept at max + 1: every such count is rejected.
Increment(l, h, ip) ==
    LET e == h[l][ip] IN
    IF e.count = 0 \/ now >= e.resetTime
    THEN [count |-> 1, resetTime |-> now + WindowOf(l)]
    ELSE [e EXCEPT !.count = IF @ > MaxOf(l) THEN @ ELSE @ + 1]

\* a limiter that rejects the request that reaches max
OverLimitAtMax(l, h, ip) == Increment(l, h, ip).count >= MaxOf(l)

\* the limiter middleware: over the limit the request ends with 429
OverLimit(l, h, ip) == Increment(l, h, ip).count > MaxOf(l)

\* a chain of limiters in registration order: the first that rejects, or "none"
RECURSIVE RejectedBy(_, _, _)
RejectedBy(chain, h, ip) ==
    IF chain = <<>> THEN "none"
    ELSE IF OverLimit(Head(chain), h, ip) THEN Head(chain)
    ELSE RejectedBy(Tail(chain), h, ip)

\* the stores after the chain ran: each limiter reached counts the request
RECURSIVE AfterLimiters(_, _, _)
AfterLimiters(chain, h, ip) ==
    IF chain = <<>> THEN h
    ELSE LET h1 == [h EXCEPT ![Head(chain)][ip] = Increment(Head(chain), h, ip)] IN
         IF OverLimit(Head(chain), h, ip) THEN h1
         ELSE AfterLimiters(Tail(chain), h1, ip)

\* history: each route limiter of the chain that lets the request through
\* records its time
RECURSIVE AdmitsAfter(_, _, _, _)
AdmitsAfter(chain, h, a, ip) ==
    IF chain = <<>> THEN a
    ELSE IF OverLimit(Head(chain), h, ip) THEN a
    ELSE AdmitsAfter(Tail(chain), h,
                     IF Head(chain) \in RouteLimiters
                     THEN [a EXCEPT ![Head(chain)][ip] = Append(@, now)]
                     ELSE a,
                     ip)

(***************************************************************************)
(* Queries. The pre(/^find/) hook adds active: {$ne: false} to every find; *)
(* a filter is cast with the schema's setters, so an email is lowercased.  *)
(***************************************************************************)
ActiveIds == {i \in Ids : users[i].active # FALSE}

Least(S) == IF S = {} THEN 0 ELSE CHOOSE i \in S : \A j \in S : i <= j

\* User.findOne({ email }): the _id found, 0 for null
FindOneByEmail(email) ==
    Least({i \in ActiveIds : users[i].email = LowerCase(email)})

\* a findById that the pre(/^find/) hook does not filter
FindByIdUnfiltered(id) == IF id \in Ids THEN id ELSE 0

\* User.findById(id)
FindById(id) == IF id \in ActiveIds THEN id ELSE 0

\* a lookup that still accepts the token at its expiry time
FindOneByResetTokenInclusive(hashedToken) ==
    Least({i \in ActiveIds :
              /\ users[i].passwordResetToken = hashedToken
              /\ users[i].passwordResetExpires >= now})

\* User.findOne({ passwordResetToken, passwordResetExpires: { $gt: Date.now() } })
FindOneByResetToken(hashedToken) ==
    Least({i \in ActiveIds :
              /\ users[i].passwordResetToken = hashedToken
              /\ users[i].passwordResetExpires > now})

\* the unique index on email covers every document, inactive ones too
EmailIndexed(email) == \E i \in Ids : users[i].email = LowerCase(email)

(***************************************************************************)
(* Model hooks and methods                                                 *)
(***************************************************************************)
\* pre('save'): a modified password is hashed; on a document that is not new
\* passwordChangedAt becomes Date.now() - 1000
PreSave(doc, passwordModified, isNew) ==
    IF ~passwordModified THEN doc
    ELSE [doc EXCEPT !.password = BcryptHash(@),
                     !.passwordChangedAt =
                         IF isNew THEN @ ELSE now - Ticks(PasswordChangedSkewMs)]

\* the validators save() runs: passwordConfirm is required and equals password
ValidateOk(password, passwordConfirm) ==
    /\ passwordConfirm # Missing
    /\ passwordConfirm = password

\* a changedPasswordAfter that also rejects the second of the change itself
ChangedPasswordAfterInclusive(doc, JWTTimestamp) ==
    IF doc.passwordChangedAt # NoDate
    THEN JWTTimestamp <= ToSeconds(doc.passwordChangedAt)
    ELSE FALSE

\* changedPasswordAfter(JWTTimestamp)
ChangedPasswordAfter(doc, JWTTimestamp) ==
    IF doc.passwordChangedAt # NoDate
    THEN JWTTimestamp < ToSeconds(doc.passwordChangedAt)
    ELSE FALSE

\* a handleFailedLogin that locks without setting lockUntil
FailedLoginDocNoExpiry(doc) ==
    LET n == doc.loginAttempts + 1 IN
    IF n >= LockThreshold
    THEN [doc EXCEPT !.loginAttempts = n, !.accountLocked = TRUE]
    ELSE [doc EXCEPT !.loginAttempts = n]

\* the document handleFailedLogin saves
FailedLoginDoc(doc) ==
    LET n == doc.loginAttempts + 1 IN
    IF n >= LockThreshold
    THEN [doc EXCEPT !.loginAttempts = n,
                     !.accountLocked = TRUE,
                     !.lockUntil = now + Ticks(LockMs)]
    ELSE [doc EXCEPT !.loginAttempts = n]

(***************************************************************************)
(* Session tokens                                                          *)
(***************************************************************************)
NoJwt == [id |-> 0, iat |-> 0, exp |-> 0, sig |-> "none"]

\* signToken(id): jwt.sign({ id }, JWT_SECRET, { expiresIn })
SignToken(id) ==
    [id |-> id,
     iat |-> ToSeconds(now),
     exp |-> ToSeconds(now) + JwtExpiresInSeconds,
     sig |-> "JWT_SECRET"]

\* jwt.verify(token, JWT_SECRET): the signature and the expiry claim
JwtVerify(token) ==
    /\ token.sig = "JWT_SECRET"
    /\ ToSeconds(now) < token.exp

\* protect: the _id of req.user, 0 when the request ends with 401
Protect(token) ==
    IF token = NoJwt THEN 0
    ELSE IF ~JwtVerify(token) THEN 0
    ELSE IF FindById(token.id) = 0 THEN 0
    ELSE IF ChangedPasswordAfter(users[token.id], token.iat) THEN 0
    ELSE token.id

\* the tokens a client may present: none, one the server signed, a forgery
TokenInputs ==
    {NoJwt} \cup sessions \cup {[t EXCEPT !.sig = "forged"] : t \in sessions}

(***************************************************************************)
(* Responses                                                               *)
(***************************************************************************)
\* the role field of a signup body: not sent, or one of the schema's roles
RoleAbsent == "absent"
BodyRoles == {RoleAbsent, "user", "admin"}

Resp(op, ip, status, message) ==
    [op |-> op, ip |-> ip, status |-> status, message |-> message,
     by |-> "none", token |-> NoJwt, reqToken |-> NoToken, jwt |-> NoJwt,
     payload |-> {}, bodyRole |-> RoleAbsent]

\* a createSendToken that serializes the document as loaded
SerializedUnstripped(loaded) == loaded
\* createSendToken: user.password = undefined before the document is serialized
Serialized(loaded) == loaded \ {"password"}

\* createSendToken: the envelope with a fresh session token
SendTokenResp(op, ip, statusCode, id, loaded) ==
    [op |-> op, ip |-> ip, status |-> statusCode, message |-> "success",
     by |-> "none", token |-> SignToken(id), reqToken |-> NoToken,
     jwt |-> NoJwt, payload |-> Serialized(loaded), bodyRole |-> RoleAbsent]

\* the double-submit check every mutating handler starts with
CsrfAbsent == "absent"
CsrfRejected(csrf) ==
    \/ csrf.header \in {CsrfAbsent, ""}
    \/ csrf.header # csrf.cookie

CsrfInputs ==
    { [header |-> "n1", cookie |-> "n1"],
      [header |-> "n1", cookie |-> "n2"],
      [header |-> CsrfAbsent, cookie |-> "n1"],
      [header |-> "", cookie |-> ""] }

\* a handler that answers without touching the store
Respond(r) ==
    /\ resp' = r
    /\ UNCHANGED <<users, sessions, nextToken, consumed, wrongStreak>>

\* a handler that saves a document and answers with a fresh session token
SaveAndSend(id, doc, r) ==
    /\ users' = [users EXCEPT ![id] = doc]
    /\ sessions' = sessions \cup {r.token}
    /\ resp' = r

\* a route whose limiters count the request and always call next()
RouteWithoutRejection(chain, op, ip, Handler) ==
    /\ hits' = AfterLimiters(chain, hits, ip)
    /\ admits' = AdmitsAfter(chain, hits, admits, ip)
    /\ Handler

\* a route: its limiters in order, then the handler
Route(chain, op, ip, Handler) ==
    /\ hits' = AfterLimiters(chain, hits, ip)
    /\ admits' = AdmitsAfter(chain, hits, admits, ip)
    /\ IF RejectedBy(chain, hits, ip) # "none"
       THEN Respond([Resp(op, ip, 429, "Too many requests")
                        EXCEPT !.by = RejectedBy(chain, hits, ip)])
       ELSE Handler

(***************************************************************************)
(* Handlers (authController.js)                                            *)
(***************************************************************************)
\* a User.create(req.body): the role the body carries is stored
UserCreateFromBody(id, email, password, role) ==
    [NewUser(id, email, password)
        EXCEPT !.role = IF role = RoleAbsent THEN @ ELSE role]

\* User.create({ name, email, password, passwordConfirm, role: 'user' }) with
\* the four fields destructured from req.body: its other fields are dropped
UserCreate(id, email, password, role) == NewUser(id, email, password)

\* exports.signup, for a body that carries the given role
SignupBodyHandler(ip, csrf, email, password, passwordConfirm, role) ==
    LET id == Len(users) + 1
        doc == [PreSave(UserCreate(id, email, password, role), TRUE, TRUE)
                   EXCEPT !.verificationToken = Sha256(nextToken),
                          !.verificationExpires = now + Ticks(VerificationTtlMs)]
    IN
    IF CsrfRejected(csrf)
    THEN Respond(Resp("signup", ip, 403, "Invalid CSRF token"))
    ELSE IF password = Missing
    THEN Respond(Resp("signup", ip, 500, "Error signing up"))
    ELSE IF Len(password) < 8
    THEN Respond(Resp("signup", ip, 400, "Password too short"))
    ELSE IF ~PasswordRegexTest(password)
    THEN Respond(Resp("signup", ip, 400, "Password too weak"))
    ELSE IF password # passwordConfirm
    THEN Respond(Resp("signup", ip, 400, "Passwords do not match"))
    ELSE IF FindOneByEmail(email) # 0
    THEN Respond(Resp("signup", ip, 400, "Email already in use"))
    ELSE IF EmailIndexed(email)
    THEN Respond(Resp("signup", ip, 500, "Error signing up"))
    ELSE /\ Len(users) < MaxUsers
         /\ nextToken <= MaxTokens
         /\ users' = Append(users, doc)
         /\ nextToken' = nextToken + 1
         /\ resp' = [SendTokenResp("signup", ip, 201, id, Defined(doc))
                        EXCEPT !.bodyRole = role]
         /\ sessions' = sessions \cup {SignToken(id)}
         /\ UNCHANGED <<consumed, wrongStreak>>

\* exports.signup, for a body without a role
SignupHandler(ip, csrf, email, password, passwordConfirm) ==
    SignupBodyHandler(ip, csrf, email, password, passwordConfirm, RoleAbsent)

\* a login that tells the caller the email finds no user
NoUserResponseNotFound(ip) ==
    Resp("login", ip, 404, "There is no user with that email address")
\* login's answer when findOne returns no user: the answer to a wrong password
NoUserResponse(ip) == Resp("login", ip, 401, "Incorrect email or password")

\* exports.login
LoginHandler(ip, csrf, email, password) ==
    LET id == FindOneByEmail(email)
        user == users[id]
        unlocked == IF user.accountLocked
                    THEN [user EXCEPT !.accountLocked = FALSE, !.loginAttempts = 0]
                    ELSE user
        saved == [unlocked EXCEPT !.loginAttempts = 0,
                                  !.lastLogin = now,
                                  !.lastLoginIp = ip]
    IN
    IF CsrfRejected(csrf)
    THEN Respond(Resp("login", ip, 403, "Invalid CSRF token"))
    ELSE IF email = Missing \/ password = Missing
    THEN Respond(Resp("login", ip, 400, "Please provide email and password"))
    ELSE IF id = 0
    THEN Respond(NoUserResponse(ip))
    ELSE IF ~BcryptCompare(password, user.password)
    THEN /\ resp' = Resp("login", ip, 401, "Incorrect email or password")
         /\ wrongStreak' =
                [wrongStreak EXCEPT ![id] =
                    [count |-> IF @.count < LockThreshold THEN @.count + 1 ELSE @.count,
                     at |-> now]]
         /\ UNCHANGED <<users, sessions, nextToken, consumed>>
    ELSE IF user.emailVerified = FALSE
    THEN /\ resp' = Resp("login", ip, 401, "Please verify your email")
         /\ wrongStreak' = [wrongStreak EXCEPT ![id] = NoStreak]
         /\ UNCHANGED <<users, sessions, nextToken, consumed>>
    ELSE IF user.accountLocked /\ user.lockUntil # NoDate /\ user.lockUntil > now
    THEN /\ resp' = Resp("login", ip, 401, "Account locked")
         /\ wrongStreak' = [wrongStreak EXCEPT ![id] = NoStreak]
         /\ UNCHANGED <<users, sessions, nextToken, consumed>>
    ELSE /\ SaveAndSend(id, saved,
                SendTokenResp("login", ip, 200, id,
                              Projection(user, {"password"})))
         /\ wrongStreak' = [wrongStreak EXCEPT ![id] = NoStreak]
         /\ UNCHANGED <<nextToken, consumed>>

\* a logout that revokes on the server: the tokens issued so far are made
\* older than the users' passwordChangedAt
LogoutHandlerRevoking(ip) ==
    /\ resp' = Resp("logout", ip, 200, "success")
    /\ users' = [i \in Ids |->
                    [users[i] EXCEPT !.passwordChangedAt = now + TicksPerSecond]]
    /\ UNCHANGED <<sessions, nextToken, consumed, wrongStreak>>

\* exports.logout
LogoutHandler(ip) == Respond(Resp("logout", ip, 200, "success"))

\* a log update that stores passwordChangedAt in whole seconds
LogPasswordChangeBySecond(doc, event) ==
    [doc EXCEPT !.passwordChangedAt = ToSeconds(now) * TicksPerSecond,
                !.securityEvents = Append(@, event)]

\* User.findByIdAndUpdate(user._id, { passwordChangedAt: Date.now(),
\* securityEvents: [...user.securityEvents, { type }] }) after a password change
LogPasswordChange(doc, event) ==
    [doc EXCEPT !.passwordChangedAt = now,
                !.securityEvents = Append(@, event)]

\* exports.updatePassword, behind router.use(protect)
UpdatePasswordHandler(ip, token, csrf, currentPassword, newPassword, passwordConfirm) ==
    LET id == Protect(token)
        user == users[id]
        saved == PreSave([user EXCEPT !.password = newPassword], TRUE, FALSE)
        logged == LogPasswordChange(saved, "PASSWORD_CHANGE")
    IN
    IF id = 0
    THEN Respond(Resp("updatePassword", ip, 401, "Authentication failed"))
    ELSE IF CsrfRejected(csrf)
    THEN Respond(Resp("updatePassword", ip, 403, "Invalid CSRF token"))
    ELSE IF ~BcryptCompare(currentPassword, user.password)
    THEN Respond(Resp("updatePassword", ip, 401, "Your current password is incorrect"))
    ELSE IF ~PasswordRegexTest(newPassword)
    THEN Respond(Resp("updatePassword", ip, 400, "Password too weak"))
    ELSE IF ~ValidateOk(newPassword, passwordConfirm)
    THEN Respond(Resp("updatePassword", ip, 500, "Error updating password"))
    ELSE /\ Len(user.securityEvents) < MaxEvents
         /\ SaveAndSend(id, logged,
                SendTokenResp("updatePassword", ip, 200, id,
                              Projection(saved, {"password"})))
         /\ UNCHANGED <<nextToken, consumed, wrongStreak>>

\* the response of exports.forgotPassword
ForgotPasswordResponse(ip, csrf, email) ==
    IF CsrfRejected(csrf)
    THEN Resp("forgotPassword", ip, 403, "Invalid CSRF token")
    ELSE IF FindOneByEmail(email) = 0
    THEN Resp("forgotPassword", ip, 404, "There is no user with that email address")
    ELSE Resp("forgotPassword", ip, 200, "Token sent to email")

\* a forgotPassword that keeps a pending token instead of replacing it
ForgotFieldsKeepPending(user) ==
    IF user.passwordResetToken # NoToken /\ user.passwordResetExpires > now
    THEN user
    ELSE [user EXCEPT !.passwordResetToken = Sha256(nextToken),
                      !.passwordResetExpires = now + Ticks(ResetTtlMs)]

\* forgotPassword's assignments to the document found by the email
ForgotFields(user) ==
    [user EXCEPT !.passwordResetToken = Sha256(nextToken),
                 !.passwordResetExpires = now + Ticks(ResetTtlMs)]

\* exports.forgotPassword
ForgotPasswordHandler(ip, csrf, email) ==
    LET id == FindOneByEmail(email)
        user == users[id]
        saved == [ForgotFields(user) EXCEPT
                     !.securityEvents =
                         Append(user.securityEvents, "PASSWORD_RESET_REQUEST")]
    IN
    IF ForgotPasswordResponse(ip, csrf, email).status # 200
    THEN Respond(ForgotPasswordResponse(ip, csrf, email))
    ELSE /\ Len(user.securityEvents) < MaxEvents
         /\ nextToken <= MaxTokens
         /\ users' = [users EXCEPT ![id] = saved]
         /\ nextToken' = nextToken + 1
         /\ resp' = ForgotPasswordResponse(ip, csrf, email)
         /\ UNCHANGED <<sessions, consumed, wrongStreak>>

\* history: the response to PATCH /reset-password/:token, with the :token sent
ResetResp(r, token) == [r EXCEPT !.reqToken = token]

\* a resetPassword that leaves the consumed token on the document
ResetFieldsKeepToken(user, password) == [user EXCEPT !.password = password]
\* a resetPassword that also unlocks the account
ResetFieldsUnlocking(user, password) ==
    [user EXCEPT !.password = password,
                 !.passwordResetToken = NoToken,
                 !.passwordResetExpires = NoDate,
                 !.accountLocked = FALSE,
                 !.loginAttempts = 0]
\* resetPassword's assignments to the document found by the token
ResetFields(user, password) ==
    [user EXCEPT !.password = password,
                 !.passwordResetToken = NoToken,
                 !.passwordResetExpires = NoDate]

\* a resetPassword that clears the token before it tests the new password
RejectWeakPasswordAfterClearing(ip, token) ==
    /\ resp' = ResetResp(Resp("resetPassword", ip, 400, "Password too weak"), token)
    /\ users' = [users EXCEPT ![FindOneByResetToken(Sha256(token))] =
                    [@ EXCEPT !.passwordResetToken = NoToken,
                              !.passwordResetExpires = NoDate]]
    /\ UNCHANGED <<sessions, nextToken, consumed, wrongStreak>>

\* resetPassword's answer to a new password that fails the regex: given
\* before any assignment to the document
RejectWeakPassword(ip, token) ==
    Respond(ResetResp(Resp("resetPassword", ip, 400, "Password too weak"), token))

\* exports.resetPassword
ResetPasswordHandler(ip, csrf, token, password, passwordConfirm) ==
    LET id == FindOneByResetToken(Sha256(token))
        user == users[id]
        saved == PreSave(ResetFields(user, password), TRUE, FALSE)
        logged == LogPasswordChange(saved, "PASSWORD_RESET")
    IN
    IF CsrfRejected(csrf)
    THEN Respond(ResetResp(Resp("resetPassword", ip, 403, "Invalid CSRF token"), token))
    ELSE IF id = 0
    THEN Respond(ResetResp(Resp("resetPassword", ip, 400,
                             "Token is invalid or has expired"), token))
    ELSE IF ~PasswordRegexTest(password)
    THEN RejectWeakPassword(ip, token)
    ELSE IF ~ValidateOk(password, passwordConfirm)
    THEN Respond(ResetResp(Resp("resetPassword", ip, 500,
                             "Error resetting password"), token))
    ELSE /\ Len(user.securityEvents) < MaxEvents
         /\ SaveAndSend(id, logged,
                ResetResp(SendTokenResp("resetPassword", ip, 200, id,
                                        Projection(saved, {"password"})),
                          token))
         /\ consumed' = consumed \cup {token}
         /\ UNCHANGED <<nextToken, wrongStreak>>

\* exports.validateToken, behind router.use(protect)
ValidateTokenHandler(ip, token) ==
    LET id == Protect(token) IN
    IF id = 0
    THEN Respond([Resp("validateToken", ip, 401, "Authentication failed")
                     EXCEPT !.jwt = token])
    ELSE Respond([Resp("validateToken", ip, 200, "success")
                     EXCEPT !.payload = Projection(users[id], {}),
                            !.jwt = token])

(***************************************************************************)
(* Routes (index.js: app.use('/api/auth', limiter); routes/auth.js)        *)
(***************************************************************************)
\* a signup route registered behind the login limiter
SignupBehindLoginLimiter(ip, csrf, email, password, passwordConfirm) ==
    Route(<<"global", "login">>, "signup", ip,
          SignupHandler(ip, csrf, email, password, passwordConfirm))

Signup(ip, csrf, email, password, passwordConfirm) ==
    Route(<<"global", "signup">>, "signup", ip,
          SignupHandler(ip, csrf, email, password, passwordConfirm))

SignupWithRole(ip, csrf, email, password, passwordConfirm, role) ==
    Route(<<"global", "signup">>, "signup", ip,
          SignupBodyHandler(ip, csrf, email, password, passwordConfirm, role))

Login(ip, csrf, email, password) ==
    Route(<<"global", "login">>, "login", ip,
          LoginHandler(ip, csrf, email, password))

Logout(ip) ==
    Route(<<"global">>, "logout", ip, LogoutHandler(ip))

ForgotPassword(ip, csrf, email) ==
    Route(<<"global", "passwordReset">>, "forgotPassword", ip,
          ForgotPasswordHandler(ip, csrf, email))

\* a reset-password route that does not share forgot-password's limiter
ResetPasswordOtherLimiter(ip, csrf, token, password, passwordConfirm) ==
    Route(<<"global", "signup">>, "resetPassword", ip,
          ResetPasswordHandler(ip, csrf, token, password, passwordConfirm))

ResetPassword(ip, csrf, token, password, passwordConfirm) ==
    Route(<<"global", "passwordReset">>, "resetPassword", ip,
          ResetPasswordHandler(ip, csrf, token, password, passwordConfirm))

UpdatePassword(ip, token, csrf, currentPassword, newPassword, passwordConfirm) ==
    Route(<<"global">>, "updatePassword", ip,
          UpdatePasswordHandler(ip, token, csrf, currentPassword, newPassword,
                                passwordConfirm))

ValidateToken(ip, token) ==
    Route(<<"global">>, "validateToken", ip, ValidateTokenHandler(ip, token))

\* userSchema.methods.handleFailedLogin, called on a loaded document
HandleFailedLogin(id) ==
    /\ id \in ActiveIds
    /\ users[id].loginAttempts <= LockThreshold
    /\ users' = [users EXCEPT ![id] = FailedLoginDoc(users[id])]
    /\ UNCHANGED <<hits, sessions, nextToken, resp, consumed, wrongStreak, admits>>

\* a user is deactivated (soft delete): the account routes that do it are
\* not part of server/routes/auth.js
Deactivate(id) ==
    /\ id \in ActiveIds
    /\ users' = [users EXCEPT ![id].active = FALSE]
    /\ UNCHANGED <<hits, sessions, nextToken, resp, consumed, wrongStreak, admits>>

\* the clock advances between two requests
Tick(d) ==
    /\ clockSteps < MaxClockSteps
    /\ clockSteps' = clockSteps + 1
    /\ now' = now + d
    /\ UNCHANGED <<users, hits, sessions, nextToken, resp, reqs, consumed,
                   wrongStreak, admits, calls>>

(***************************************************************************)
(* Overlapping calls. A handler is a sequence of awaits: between the       *)
(* resolution of a query and the save that follows it, other requests run. *)
(* A call holds the document its query returned.                           *)
(***************************************************************************)
Calls == 1..MaxCalls
NoDoc == NewUser(0, <<>>, <<>>)
Idle == [pc |-> "idle", op |-> "none", id |-> 0, doc |-> NoDoc,
         token |-> NoToken, status |-> 0]
Holding(op, id, token) ==
    [pc |-> "loaded", op |-> op, id |-> id, doc |-> users[id],
     token |-> token, status |-> 0]
Done(call, status) == [call EXCEPT !.pc = "done", !.status = status]

\* document.save(): the update sets the paths modified since the document
\* was loaded and leaves the other stored paths alone
SaveModified(stored, before, after) ==
    [f \in DOMAIN stored |->
        IF after[f] # before[f] THEN after[f] ELSE stored[f]]

\* a step of an overlapping call: it takes no time of the model's clock
CallStep(A) ==
    /\ UNCHANGED <<now, clockSteps, reqs>>
    /\ A

\* the caller of handleFailedLogin loads the document
LoadDocument(p, email) ==
    LET id == FindOneByEmail(email) IN
    /\ calls[p].pc = "idle"
    /\ id # 0
    /\ calls' = [calls EXCEPT ![p] = Holding("handleFailedLogin", id, NoToken)]
    /\ UNCHANGED <<users, hits, sessions, nextToken, resp, consumed,
                   wrongStreak, admits>>

\* userSchema.methods.handleFailedLogin on the loaded document: the
\* increment and the lock are computed in memory, then saved
HandleFailedLoginSave(p) ==
    LET call == calls[p]
        after == FailedLoginDoc(call.doc)
    IN
    /\ call.pc = "loaded"
    /\ call.op = "handleFailedLogin"
    /\ users' = [users EXCEPT
                    ![call.id] = SaveModified(@, call.doc, after)]
    /\ calls' = [calls EXCEPT ![p] = Done([call EXCEPT !.doc = after], 200)]
    /\ UNCHANGED <<hits, sessions, nextToken, resp, consumed, wrongStreak,
                   admits>>

\* exports.forgotPassword up to the resolution of User.findOne
ForgotLookup(p, ip, csrf, email) ==
    LET chain == <<"global", "passwordReset">>
        id == FindOneByEmail(email)
        call == [Idle EXCEPT !.op = "forgotPassword"]
    IN
    /\ calls[p].pc = "idle"
    /\ Route(chain, "forgotPassword", ip,
             IF ForgotPasswordResponse(ip, csrf, email).status # 200
             THEN Respond(ForgotPasswordResponse(ip, csrf, email))
             ELSE Respond(resp))
    /\ calls' = [calls EXCEPT ![p] =
                    IF RejectedBy(chain, hits, ip) # "none" THEN Done(call, 429)
                    ELSE IF ForgotPasswordResponse(ip, csrf, email).status # 200
                    THEN Done(call, ForgotPasswordResponse(ip, csrf, email).status)
                    ELSE Holding("forgotPassword", id, NoToken)]

\* exports.forgotPassword from the resolution of User.findOne on: save()
\* sets the token and its expiry, findByIdAndUpdate sets the securityEvents
\* array computed from the loaded document
ForgotSave(p, ip) ==
    LET call == calls[p] IN
    /\ call.pc = "loaded"
    /\ call.op = "forgotPassword"
    /\ Len(call.doc.securityEvents) < MaxEvents
    /\ nextToken <= MaxTokens
    /\ users' = [users EXCEPT ![call.id] =
                    [@ EXCEPT !.passwordResetToken = Sha256(nextToken),
                              !.passwordResetExpires = now + Ticks(ResetTtlMs),
                              !.securityEvents =
                                  Append(call.doc.securityEvents,
                                         "PASSWORD_RESET_REQUEST")]]
    /\ nextToken' = nextToken + 1
    /\ resp' = Resp("forgotPassword", ip, 200, "Token sent to email")
    /\ calls' = [calls EXCEPT ![p] = Done([call EXCEPT !.token = nextToken], 200)]
    /\ UNCHANGED <<hits, admits, sessions, consumed, wrongStreak>>

\* resetPassword's two writes, as the store receives them: save() sets the
\* paths the handler assigned, findByIdAndUpdate sets passwordChangedAt and
\* the securityEvents array computed from the loaded document
ResetWrites(stored, logged) ==
    [stored EXCEPT !.password = logged.password,
                   !.passwordResetToken = logged.passwordResetToken,
                   !.passwordResetExpires = logged.passwordResetExpires,
                   !.passwordChangedAt = logged.passwordChangedAt,
                   !.securityEvents = logged.securityEvents]

\* exports.resetPassword up to the resolution of User.findOne
ResetLookup(p, ip, csrf, token) ==
    LET chain == <<"global", "passwordReset">>
        id == FindOneByResetToken(Sha256(token))
        call == [Idle EXCEPT !.op = "resetPassword", !.token = token]
    IN
    /\ calls[p].pc = "idle"
    /\ Route(chain, "resetPassword", ip,
             IF CsrfRejected(csrf)
             THEN Respond(ResetResp(Resp("resetPassword", ip, 403,
                                         "Invalid CSRF token"), token))
             ELSE IF id = 0
             THEN Respond(ResetResp(Resp("resetPassword", ip, 400,
                                         "Token is invalid or has expired"),
                                    token))
             ELSE Respond(resp))
    /\ calls' = [calls EXCEPT ![p] =
                    IF RejectedBy(chain, hits, ip) # "none" THEN Done(call, 429)
                    ELSE IF CsrfRejected(csrf) THEN Done(call, 403)
                    ELSE IF id = 0 THEN Done(call, 400)
                    ELSE Holding("resetPassword", id, token)]

\* exports.resetPassword from the resolution of User.findOne on
ResetSave(p, ip, password, passwordConfirm) ==
    LET call == calls[p]
        saved == PreSave(ResetFields(call.doc, password), TRUE, FALSE)
        logged == LogPasswordChange(saved, "PASSWORD_RESET")
    IN
    /\ call.pc = "loaded"
    /\ call.op = "resetPassword"
    /\ IF ~PasswordRegexTest(password)
       THEN /\ Respond(ResetResp(Resp("resetPassword", ip, 400,
                                      "Password too weak"), call.token))
            /\ calls' = [calls EXCEPT ![p] = Done(call, 400)]
       ELSE IF ~ValidateOk(password, passwordConfirm)
       THEN /\ Respond(ResetResp(Resp("resetPassword", ip, 500,
                                      "Error resetting password"), call.token))
            /\ calls' = [calls EXCEPT ![p] = Done(call, 500)]
       ELSE /\ Len(call.doc.securityEvents) < MaxEvents
            /\ SaveAndSend(call.id, ResetWrites(users[call.id], logged),
                   ResetResp(SendTokenResp("resetPassword", ip, 200, call.id,
                                           Projection(saved, {"password"})),
                             call.token))
            /\ consumed' = consumed \cup {call.token}
            /\ calls' = [calls EXCEPT ![p] = Done(call, 200)]
            /\ UNCHANGED <<nextToken, wrongStreak>>
    /\ UNCHANGED <<hits, admits>>

(***************************************************************************)
(* Initial state. The collection is the database the server connects to:   *)
(* it holds one account provisioned outside signup (role admin,            *)
(* which signup never assigns), verified, active or deactivated.           *)
(* No handler sets emailVerified to true or active to false; the handlers  *)
(* read both.                                                              *)
(***************************************************************************)
StartTime == Ticks(10 * 1000 + 500)

Provisioned(verified, active) ==
    [NewUser(1, EmailA, BcryptHash(PwStrong))
        EXCEPT !.role = "admin", !.emailVerified = verified, !.active = active]

SeedCollections == {<<Provisioned(TRUE, a)>> : a \in BOOLEAN}

Init ==
    /\ users \in SeedCollections
    /\ now = StartTime
    /\ hits = [l \in Limiters |-> [ip \in ClientIps |-> NoWindow]]
    /\ sessions = {}
    /\ nextToken = 1
    /\ resp = Resp("none", NoIp, 0, "none")
    /\ reqs = 0
    /\ clockSteps = 0
    /\ consumed = {}
    /\ wrongStreak = [id \in UserIds |-> NoStreak]
    /\ admits = [l \in RouteLimiters |-> [ip \in ClientIps |-> <<>>]]
    /\ calls = [p \in Calls |-> Idle]

PasswordInputs == Passwords \cup {Missing}
\* a password with its confirmation: equal, different, or not sent
PasswordPairs ==
    {<<p, p>> : p \in PasswordInputs} \cup {<<PwNew, PwStrong>>, <<PwNew, Missing>>}
ResetTokenInputs == 1..MaxTokens

\* the requests clients in ips may send, per route
SignupRequest(ips, csrfs) ==
    \E ip \in ips, csrf \in csrfs, email \in Emails, pw \in PasswordPairs :
        Signup(ip, csrf, email, pw[1], pw[2])

LoginRequest(ips, csrfs) ==
    \E ip \in ips, csrf \in csrfs, email \in Emails \cup {Missing},
       password \in PasswordInputs :
        Login(ip, csrf, email, password)

LogoutRequest(ips) == \E ip \in ips : Logout(ip)

ForgotPasswordRequest(ips, csrfs) ==
    \E ip \in ips, csrf \in csrfs, email \in Emails :
        ForgotPassword(ip, csrf, email)

ResetPasswordRequest(ips, csrfs) ==
    \E ip \in ips, csrf \in csrfs, token \in ResetTokenInputs, pw \in PasswordPairs :
        ResetPassword(ip, csrf, token, pw[1], pw[2])

UpdatePasswordRequest(ips, csrfs) ==
    \E ip \in ips, token \in TokenInputs, csrf \in csrfs,
       currentPassword \in Passwords, pw \in PasswordPairs :
        UpdatePassword(ip, token, csrf, currentPassword, pw[1], pw[2])

ValidateTokenRequest(ips) ==
    \E ip \in ips, token \in TokenInputs : ValidateToken(ip, token)

FailedLoginCall == \E id \in UserIds : HandleFailedLogin(id)

\* one request or method call, counted against a budget of max
Step(max, A) ==
    /\ reqs < max
    /\ reqs' = reqs + 1
    /\ UNCHANGED <<now, clockSteps, calls>>
    /\ A

(***************************************************************************)
(* Spec: every route and method, one client, the clock advancing by half   *)
(* seconds.                                                                *)
(***************************************************************************)
MainIps == {"ip1"}
MainDeltas == {Ticks(500)}
MainCsrf == {c \in CsrfInputs : c.header = "n1"}

Next ==
    \/ Step(MaxRequests, SignupRequest(MainIps, MainCsrf))
    \/ Step(MaxRequests, LoginRequest(MainIps, MainCsrf))
    \/ Step(MaxRequests, LogoutRequest(MainIps))
    \/ Step(MaxRequests, ForgotPasswordRequest(MainIps, MainCsrf))
    \/ Step(MaxRequests, ResetPasswordRequest(MainIps, MainCsrf))
    \/ Step(MaxRequests, UpdatePasswordRequest(MainIps, MainCsrf))
    \/ Step(MaxRequests, ValidateTokenRequest(MainIps))
    \/ Step(MaxRequests, FailedLoginCall)
    \/ \E d \in MainDeltas : Tick(d)

Spec == Init /\ [][Next]_vars

(***************************************************************************)
(* SpecLogin: the login route and the lockout method, two clients, the     *)
(* clock advancing by the login window or the lock duration.               *)
(***************************************************************************)
MaxLoginSteps == 6
LoginIps == {"ip1", "ip2"}
LoginDeltas == {Ticks(LoginWindowMs), Ticks(LockMs)}

NextLogin ==
    \/ Step(MaxLoginSteps, LoginRequest(LoginIps, MainCsrf))
    \/ Step(MaxLoginSteps, FailedLoginCall)
    \/ \E d \in LoginDeltas : Tick(d)

SpecLogin == Init /\ [][NextLogin]_vars

(***************************************************************************)
(* SpecWindow: the login limiter over two windows. Two clients log in to   *)
(* the provisioned account with its password or with a wrong one; the      *)
(* clock advances by the login window.                                     *)
(***************************************************************************)
MaxWindowRequests == 7
FirstClient == "ip1"
OtherClient == "ip2"
\* the header and cookie of a request that passes the CSRF check
RateCsrf == {c \in CsrfInputs : ~CsrfRejected(c)}
WindowDeltas == {Ticks(LoginWindowMs)}

WindowLogin(ip) ==
    \E csrf \in RateCsrf, password \in {PwStrong, PwWeak} :
        Login(ip, csrf, EmailA, password)

NextWindow ==
    \/ Step(MaxWindowRequests, \E ip \in ClientIps : WindowLogin(ip))
    \/ \E d \in WindowDeltas : Tick(d)

SpecWindow == Init /\ [][NextWindow]_vars

(***************************************************************************)
(* SpecLock: the lock of the provisioned account. handleFailedLogin is     *)
(* called on it, one client logs in with its password or a wrong one, the  *)
(* clock advances by the login window or the lock duration.                *)
(***************************************************************************)
MaxLockSteps == 7

NextLock ==
    \/ Step(MaxLockSteps, FailedLoginCall)
    \/ Step(MaxLockSteps, WindowLogin(FirstClient))
    \/ \E d \in LoginDeltas : Tick(d)

SpecLock == Init /\ [][NextLock]_vars

(***************************************************************************)
(* SpecSession: passwords and session tokens of the provisioned account.   *)
(* One client logs in, changes or resets the password and presents its     *)
(* tokens; the account may be deactivated; the clock advances by half a    *)
(* second or by the lifetime of a token.                                   *)
(***************************************************************************)
MaxSessionRequests == 4
SessionDeltas == {Ticks(500), JwtExpiresInSeconds * TicksPerSecond}
SessionPasswords == {PwStrong, PwNew}

SessionLogin ==
    \E csrf \in RateCsrf, password \in SessionPasswords :
        Login(FirstClient, csrf, EmailA, password)
SessionUpdatePassword ==
    \E token \in TokenInputs, csrf \in RateCsrf,
       currentPassword \in SessionPasswords, newPassword \in SessionPasswords :
        UpdatePassword(FirstClient, token, csrf, currentPassword, newPassword,
                       newPassword)
SessionForgotPassword ==
    \E csrf \in RateCsrf : ForgotPassword(FirstClient, csrf, EmailA)
SessionResetPassword ==
    \E csrf \in RateCsrf, token \in ResetTokenInputs,
       password \in SessionPasswords :
        ResetPassword(FirstClient, csrf, token, password, password)
SessionValidateToken ==
    \E token \in TokenInputs : ValidateToken(FirstClient, token)
SessionDeactivate == \E id \in UserIds : Deactivate(id)

NextSession ==
    \/ Step(MaxSessionRequests, SessionLogin)
    \/ Step(MaxSessionRequests, SessionUpdatePassword)
    \/ Step(MaxSessionRequests, SessionForgotPassword)
    \/ Step(MaxSessionRequests, SessionResetPassword)
    \/ Step(MaxSessionRequests, SessionValidateToken)
    \/ Step(MaxSessionRequests, SessionDeactivate)
    \/ \E d \in SessionDeltas : Tick(d)

SpecSession == Init /\ [][NextSession]_vars

(***************************************************************************)
(* SpecChange: successive password changes of the provisioned account.     *)
(* One client sends its requests one after another; a handler awaits the   *)
(* bcrypt work and the store, so the clock reads later at each request.    *)
(***************************************************************************)
MaxChangeRequests == 4
HandlerDurations == {Ticks(500)}

\* one request, and the time until the next one is handled
TimedStep(max, A) ==
    /\ reqs < max
    /\ reqs' = reqs + 1
    /\ \E d \in HandlerDurations : now' = now + d
    /\ UNCHANGED <<clockSteps, calls>>
    /\ A

NextChange ==
    \/ TimedStep(MaxChangeRequests, SessionLogin)
    \/ TimedStep(MaxChangeRequests, SessionUpdatePassword)
    \/ TimedStep(MaxChangeRequests, SessionForgotPassword)
    \/ TimedStep(MaxChangeRequests, SessionResetPassword)

SpecChange == Init /\ [][NextChange]_vars

(***************************************************************************)
(* SpecRate: the limiters. The requests change no document: logout, a      *)
(* login for an unknown email, a signup for a stored email, a forgotten    *)
(* password for an unknown email. One client may spend the whole budget of *)
(* /api/auth on them, the other sends a short burst of logins. The clock   *)
(* stands still: one window.                                               *)
(***************************************************************************)
RateSlack == 2
MaxOtherRequests == 1
MaxRateRequests == GlobalMax + RateSlack

RateLogout(ip) == Logout(ip)
RateLogin(ip) == \E csrf \in RateCsrf : Login(ip, csrf, EmailB, PwStrong)
RateSignup(ip) == \E csrf \in RateCsrf : Signup(ip, csrf, EmailA, PwStrong, PwStrong)
RateForgot(ip) == \E csrf \in RateCsrf : ForgotPassword(ip, csrf, EmailB)
OtherLogin ==
    /\ hits["global"][OtherClient].count < MaxOtherRequests
    /\ RateLogin(OtherClient)

NextRate ==
    \/ Step(MaxRateRequests, RateLogout(FirstClient))
    \/ Step(MaxRateRequests, RateLogin(FirstClient))
    \/ Step(MaxRateRequests, RateSignup(FirstClient))
    \/ Step(MaxRateRequests, RateForgot(FirstClient))
    \/ Step(MaxRateRequests, OtherLogin)

\* the collection holds the active account
InitRate == Init /\ users = <<Provisioned(TRUE, TRUE)>>

SpecRate == InitRate /\ [][NextRate]_vars

(***************************************************************************)
(* SpecOverlap: handleFailedLogin is called on the provisioned account by  *)
(* calls that overlap: each loads the document, then increments and saves. *)
(***************************************************************************)
NextOverlap ==
    \/ \E p \in Calls : CallStep(LoadDocument(p, EmailA))
    \/ \E p \in Calls : CallStep(HandleFailedLoginSave(p))

SpecOverlap == Init /\ [][NextOverlap]_vars

(***************************************************************************)
(* SpecResetRace: reset tokens are issued for the provisioned account and  *)
(* presented by resetPassword calls that overlap: each looks the token up, *)
(* then saves.                                                             *)
(***************************************************************************)
NextResetRace ==
    \/ Step(MaxRequests, SessionForgotPassword)
    \/ \E p \in Calls, csrf \in RateCsrf, token \in ResetTokenInputs :
           CallStep(ResetLookup(p, FirstClient, csrf, token))
    \/ \E p \in Calls, password \in SessionPasswords :
           CallStep(ResetSave(p, FirstClient, password, password))

SpecResetRace == Init /\ [][NextResetRace]_vars

(***************************************************************************)
(* SpecSignup: signups whose body carries a role or none, one client, the  *)
(* clock advancing by half seconds.                                        *)
(***************************************************************************)
SignupBodyRequest ==
    \E ip \in MainIps, csrf \in MainCsrf, email \in Emails,
       pw \in PasswordPairs, role \in BodyRoles :
        SignupWithRole(ip, csrf, email, pw[1], pw[2], role)

NextSignup ==
    \/ Step(MaxRequests, SignupBodyRequest)
    \/ \E d \in MainDeltas : Tick(d)

SpecSignup == Init /\ [][NextSignup]_vars

(***************************************************************************)
(* SpecEnum: one client signs up and logs in, with the password or a wrong *)
(* one, to the provisioned account, to the account it created and to an    *)
(* email no account has; handleFailedLogin is called on the first; the     *)
(* clock advances by the lock duration.                                    *)
(***************************************************************************)
EnumSignup ==
    \E csrf \in RateCsrf : Signup(FirstClient, csrf, EmailB, PwStrong, PwStrong)
EnumLogin ==
    \E csrf \in RateCsrf, email \in {EmailA, EmailB},
       password \in {PwStrong, PwWeak} :
        Login(FirstClient, csrf, email, password)

NextEnum ==
    \/ Step(MaxLockSteps, EnumSignup)
    \/ Step(MaxLockSteps, EnumLogin)
    \/ Step(MaxLockSteps, HandleFailedLogin(1))
    \/ Tick(Ticks(LockMs))

SpecEnum == Init /\ [][NextEnum]_vars

(***************************************************************************)
(* SpecExpiry: reset tokens are issued for the provisioned account and     *)
(* presented; the clock advances to half a second before the expiry of a   *)
(* token issued at the start, or to the expiry itself.                     *)
(***************************************************************************)
ExpiryDeltas == {Ticks(ResetTtlMs - MsPerTick), Ticks(ResetTtlMs)}

NextExpiry ==
    \/ Step(MaxRequests, SessionForgotPassword)
    \/ Step(MaxRequests, SessionResetPassword)
    \/ \E d \in ExpiryDeltas : Tick(d)

SpecExpiry == Init /\ [][NextExpiry]_vars

(***************************************************************************)
(* SpecLogout: one client logs in to the provisioned account, logs out,    *)
(* changes the password and presents its tokens; the clock advances by     *)
(* half a second or by the lifetime of a token.                            *)
(***************************************************************************)
NextLogout ==
    \/ Step(MaxSessionRequests, SessionLogin)
    \/ Step(MaxSessionRequests, Logout(FirstClient))
    \/ Step(MaxSessionRequests, SessionUpdatePassword)
    \/ Step(MaxSessionRequests, SessionValidateToken)
    \/ \E d \in SessionDeltas : Tick(d)

SpecLogout == Init /\ [][NextLogout]_vars

(***************************************************************************)
(* SpecAudit: forgotPassword and resetPassword calls on the provisioned    *)
(* account that overlap: each loads the document, then saves and logs its  *)
(* security event.                                                         *)
(***************************************************************************)
NextAudit ==
    \/ \E p \in Calls, csrf \in RateCsrf :
           CallStep(ForgotLookup(p, FirstClient, csrf, EmailA))
    \/ \E p \in Calls : CallStep(ForgotSave(p, FirstClient))
    \/ \E p \in Calls, csrf \in RateCsrf, token \in ResetTokenInputs :
           CallStep(ResetLookup(p, FirstClient, csrf, token))
    \/ \E p \in Calls :
           CallStep(ResetSave(p, FirstClient, PwNew, PwNew))

SpecAudit == Init /\ [][NextAudit]_vars

(***************************************************************************)
(* SpecWeak: reset tokens are issued for the provisioned account and       *)
(* presented with a strong or a weak new password; the clock advances by   *)
(* half seconds.                                                           *)
(***************************************************************************)
WeakResetPassword ==
    \E csrf \in RateCsrf, token \in ResetTokenInputs,
       password \in {PwNew, PwWeak} :
        ResetPassword(FirstClient, csrf, token, password, password)

NextWeak ==
    \/ Step(MaxRequests, SessionForgotPassword)
    \/ Step(MaxRequests, WeakResetPassword)
    \/ \E d \in MainDeltas : Tick(d)

SpecWeak == Init /\ [][NextWeak]_vars

(***************************************************************************)
(* SpecBudget: one client asks for reset tokens, for the provisioned       *)
(* account and for an email no account has, and presents them; the clock   *)
(* advances by the window of the password-reset limiter.                   *)
(***************************************************************************)
BudgetForgot ==
    \E csrf \in RateCsrf, email \in {EmailA, EmailB} :
        ForgotPassword(FirstClient, csrf, email)

NextBudget ==
    \/ Step(MaxSessionRequests, BudgetForgot)
    \/ Step(MaxSessionRequests, SessionResetPassword)
    \/ Tick(Ticks(PasswordResetWindowMs))

SpecBudget == Init /\ [][NextBudget]_vars

(***************************************************************************)
(* SpecFrame: handleFailedLogin is called on the provisioned account, one  *)
(* client signs up, asks for reset tokens for both accounts, presents them *)
(* and changes passwords with the session tokens it holds.                 *)
(***************************************************************************)
FrameForgot ==
    \E csrf \in RateCsrf, email \in {EmailA, EmailB} :
        ForgotPassword(FirstClient, csrf, email)
FrameReset ==
    \E csrf \in RateCsrf, token \in ResetTokenInputs :
        ResetPassword(FirstClient, csrf, token, PwNew, PwNew)
FrameUpdate ==
    \E token \in sessions, csrf \in RateCsrf, current \in SessionPasswords :
        UpdatePassword(FirstClient, token, csrf, current, PwNew, PwNew)

NextFrame ==
    \/ Step(MaxLockSteps, HandleFailedLogin(1))
    \/ Step(MaxLockSteps, EnumSignup)
    \/ Step(MaxLockSteps, FrameForgot)
    \/ Step(MaxLockSteps, FrameReset)
    \/ Step(MaxLockSteps, FrameUpdate)

SpecFrame == Init /\ [][NextFrame]_vars

(***************************************************************************)
(* Claims                                                                  *)
(***************************************************************************)
\* a login request that its limiters admit and that passes the CSRF check,
\* for the account the email finds
LoginAttempt(ip, csrf, email, password, id) ==
    /\ id # 0
    /\ id = FindOneByEmail(email)
    /\ RejectedBy(<<"global", "login">>, hits, ip) = "none"
    /\ ~CsrfRejected(csrf)
    /\ Login(ip, csrf, email, password)

\* C1: after 5 consecutive logins with a wrong password for an account, the
\* next login attempt for it made less than 30 minutes after the fifth fails
\* with the account-locked outcome, whatever its password, and no session
\* token is issued.
C1_LockoutAfterFiveFailures ==
    [][\A ip \in LoginIps, csrf \in MainCsrf, email \in Emails,
          password \in Passwords, id \in UserIds :
          ( /\ wrongStreak[id].count = LockThreshold
            /\ now < wrongStreak[id].at + Ticks(LockMs)
            /\ LoginAttempt(ip, csrf, email, password, id) )
          => ( /\ resp'.message = "Account locked"
               /\ resp'.token = NoJwt
               /\ sessions' = sessions )]_vars

\* an account in the state Locked whose lock window has not elapsed
Locked(id) ==
    /\ id \in Ids
    /\ users[id].accountLocked
    /\ users[id].lockUntil # NoDate
    /\ now < users[id].lockUntil

\* C2: while an account is Locked and now < lockUntil, every login attempt
\* for it, with the correct or a wrong password, fails with the
\* account-locked outcome: the lock decides, not the password comparison.
C2_LockedBeforePasswordCheck ==
    [][\A ip \in LoginIps, csrf \in MainCsrf, email \in Emails,
          password \in Passwords, id \in UserIds :
          ( /\ Locked(id)
            /\ LoginAttempt(ip, csrf, email, password, id) )
          => ( /\ resp'.message = "Account locked"
               /\ resp'.token = NoJwt
               /\ users' = users )]_vars

\* an account still flagged locked whose lock window has elapsed
LockElapsed(id) ==
    /\ id \in Ids
    /\ users[id].accountLocked
    /\ users[id].lockUntil # NoDate
    /\ now >= users[id].lockUntil

\* C3: the first login attempt for a Locked account made once
\* now >= lockUntil puts the account back to Active (accountLocked false,
\* loginAttempts 0); with the correct password it succeeds with a token.
C3_LazyUnlock ==
    [][\A ip \in LoginIps, csrf \in MainCsrf, email \in Emails,
          password \in Passwords, id \in UserIds :
          ( /\ LockElapsed(id)
            /\ LoginAttempt(ip, csrf, email, password, id) )
          => ( /\ users'[id].accountLocked = FALSE
               /\ users'[id].loginAttempts = 0
               /\ BcryptCompare(password, users[id].password)
                    => (resp'.status = 200 /\ resp'.token # NoJwt) )]_vars

(***************************************************************************)
(* Password change and session tokens                                      *)
(***************************************************************************)
\* the step answers a request with a session token: every admitted request
\* is counted by the limiter of /api/auth, no other step touches the counters
TokenIssued == hits' # hits /\ resp'.token # NoJwt

\* the step is a PATCH /update-password that changed the password
PasswordChanged ==
    /\ TokenIssued
    /\ resp'.op = "updatePassword"
    /\ resp'.status = 200

\* protect accepts the token the answered request returned
ReturnedTokenAccepted ==
    \A t \in sessions' : t = resp'.token => (Protect(t) = t.id)'

\* the tokens issued to the user of the answered request before that request
EarlierTokens == {t \in sessions : t.id = resp'.token.id}

\* C4 as stated: after a successful password change every session token of
\* that user issued before the change is rejected by protect, and the token
\* the change returns is accepted.
C4_EveryEarlierTokenRejected ==
    [][PasswordChanged =>
          /\ \A t \in EarlierTokens : Protect(t)' = 0
          /\ ReturnedTokenAccepted]_vars

\* C4 amended: after a successful password change every session token of that
\* user issued in an earlier clock second than the change is rejected by
\* protect; the token the change returns is accepted, and so is every token at
\* the moment it is issued, also after a change.
C4_TokensOfEarlierSecondsRejected ==
    [][/\ PasswordChanged =>
             /\ \A t \in EarlierTokens :
                    t.iat < ToSeconds(now) => Protect(t)' = 0
             /\ ReturnedTokenAccepted
       /\ TokenIssued => ReturnedTokenAccepted]_vars

\* a password change has answered, and a token of an earlier second is refused
C4_Witness ==
    /\ resp.op = "updatePassword"
    /\ resp.status = 200
    /\ Protect(resp.token) = resp.token.id
    /\ \E t \in sessions :
          /\ t.id = resp.token.id
          /\ t.iat < resp.token.iat
          /\ Protect(t) = 0

(***************************************************************************)
(* Reset tokens                                                            *)
(***************************************************************************)
\* C5: a reset token that has reset a password is consumed; a later
\* resetPassword with the same plaintext fails with 400 and changes no user
\* and issues no session token.
C5_ResetTokenSingleUse ==
    [][\A ip \in ClientIps, csrf \in CsrfInputs, token \in consumed,
          pw \in PasswordPairs :
          ( /\ RejectedBy(<<"global", "passwordReset">>, hits, ip) = "none"
            /\ ~CsrfRejected(csrf)
            /\ ResetPassword(ip, csrf, token, pw[1], pw[2]) )
          => ( /\ resp'.status = 400
               /\ resp'.message = "Token is invalid or has expired"
               /\ resp'.token = NoJwt
               /\ users' = users
               /\ sessions' = sessions )]_vars

\* a consumed token was presented again and refused
C5_Witness ==
    /\ resp.op = "resetPassword"
    /\ resp.reqToken \in consumed
    /\ resp.status = 400
    /\ resp.message = "Token is invalid or has expired"

\* C6: forgotPassword answers 200 with the same body whether or not the email
\* belongs to a user; only a rate-limited or CSRF-rejected request differs.
C6_ForgotPasswordUniformResponse ==
    (resp.op = "forgotPassword" /\ resp.status \notin {429, 403})
        => (resp.status = 200 /\ resp.message = "Token sent to email")

(***************************************************************************)
(* Response payloads                                                       *)
(***************************************************************************)
\* C9: no response carries the password field of a user document, on any
\* route, whatever the query selected.
C9_NoPasswordInPayload == "password" \notin resp.payload

\* a login that loaded the password hash has answered with the user document
C9_Witness ==
    /\ resp.op = "login"
    /\ resp.status = 200
    /\ resp.token # NoJwt
    /\ {"_id", "email", "role"} \subseteq resp.payload

(***************************************************************************)
(* Email uniqueness                                                        *)
(***************************************************************************)
\* C10: a signup whose lower-cased email is already stored on a user
\* document, active or deactivated, fails with 400 "Email already in use",
\* creates no user and issues no token.
C10_DuplicateEmailRejected ==
    [][\A ip \in ClientIps, csrf \in CsrfInputs, email \in Emails :
          ( /\ EmailIndexed(email)
            /\ RejectedBy(<<"global", "signup">>, hits, ip) = "none"
            /\ ~CsrfRejected(csrf)
            /\ Signup(ip, csrf, email, PwStrong, PwStrong) )
          => ( /\ resp'.status = 400
               /\ resp'.message = "Email already in use"
               /\ resp'.token = NoJwt
               /\ users' = users )]_vars

(***************************************************************************)
(* Rate limits                                                             *)
(***************************************************************************)
\* limiter l holds a running window for ip
InWindow(l, ip) == hits[l][ip].count > 0 /\ now < hits[l][ip].resetTime

\* the requests of ip that limiter l let through in the window it holds for ip
AdmittedInWindow(l, ip) ==
    Cardinality({k \in DOMAIN admits[l][ip] :
                    /\ hits[l][ip].count > 0
                    /\ admits[l][ip][k] >= hits[l][ip].resetTime - WindowOf(l)
                    /\ admits[l][ip][k] < hits[l][ip].resetTime})

\* limiter l has let max requests of ip through in the running window
Spent(l, ip) == InWindow(l, ip) /\ AdmittedInWindow(l, ip) >= MaxOf(l)

\* the step is a login request of SpecWindow from ip, with the password of the
\* account or a wrong one
LoginFrom(ip) ==
    /\ resp'.op = "login"
    /\ resp'.ip = ip
    /\ WindowLogin(ip)

\* C7: for each client IP the login limiter lets at most 5 login requests
\* through in one 15-minute window; a login request that arrives when 5 were
\* let through in the running window is answered 429 whatever its
\* credentials and changes no user and issues no token; when the window has
\* elapsed, or fewer than 5 were let through, the login limiter lets the
\* request through.
C7_LoginRateLimit ==
    [][\A ip \in ClientIps :
          /\ AdmittedInWindow("login", ip)' <= LoginMax
          /\ LoginFrom(ip) =>
                IF Spent("login", ip)
                THEN /\ resp'.status = 429
                     /\ users' = users
                     /\ sessions' = sessions
                ELSE /\ resp'.by # "login"
                     /\ resp'.by = "none" =>
                           Len(admits'["login"][ip]) = Len(admits["login"][ip]) + 1]_vars

\* a sixth login in the window was refused, and after the window a login of
\* the same client was let through
C7_Witness ==
    \E ip \in ClientIps :
        /\ resp.op = "login"
        /\ resp.ip = ip
        /\ resp.status # 429
        /\ hits["login"][ip].count = 1
        /\ Len(admits["login"][ip]) = LoginMax + 1
        /\ reqs > LoginMax + 1

\* the limiter of routes/auth.js in front of a route, "none" for a route
\* behind the limiter of /api/auth alone
OwnLimiter(op) ==
    CASE op = "login" -> "login"
      [] op = "signup" -> "signup"
      [] op \in {"forgotPassword", "resetPassword"} -> "passwordReset"
      [] OTHER -> "none"

RateOps == {"logout", "login", "signup", "forgotPassword"}

\* the step is a request of SpecRate from ip to op
RateRequest(ip, op) ==
    /\ resp'.op = op
    /\ resp'.ip = ip
    /\ CASE op = "logout" -> RateLogout(ip)
         [] op = "login" -> RateLogin(ip)
         [] op = "signup" -> RateSignup(ip)
         [] op = "forgotPassword" -> RateForgot(ip)

\* C8 as stated: counters are keyed by (clientIp, action), so a request to
\* login, signup or password-reset is answered 429 exactly when the requests
\* of that IP to that action have spent the action's limit; requests to other
\* actions and from other IPs do not change the outcome.
C8_OutcomeByIpAndActionAlone ==
    [][\A ip \in ClientIps, op \in RateOps \ {"logout"} :
          RateRequest(ip, op) =>
             (resp'.status = 429 <=> Spent(OwnLimiter(op), ip))]_vars

\* the limiter of /api/auth has counted max requests of ip in its window
SharedSpent(ip) ==
    InWindow("global", ip) /\ hits["global"][ip].count >= GlobalMax

\* C8 amended: login, signup and password-reset each have a counter per
\* client IP, and all /api/auth requests of an IP share one more counter (100
\* per 15 minutes). A request is answered 429 exactly when its IP has spent
\* the limit of its action or the shared limit; it changes no counter but
\* these two of its own IP. So requests to one action change another action's
\* outcome only by spending the shared limit, and requests of one IP never
\* change the outcome for another IP.
C8_OutcomeByIpActionAndSharedBudget ==
    [][\A ip \in ClientIps, op \in RateOps :
          RateRequest(ip, op) =>
             /\ resp'.status = 429 <=>
                   \/ SharedSpent(ip)
                   \/ OwnLimiter(op) # "none" /\ Spent(OwnLimiter(op), ip)
             /\ \A l \in Limiters, other \in ClientIps :
                   (other # ip \/ l \notin {"global", OwnLimiter(op)})
                      => hits'[l][other] = hits[l][other]
             /\ \A l \in RouteLimiters, other \in ClientIps :
                   (other # ip \/ l # OwnLimiter(op))
                      => admits'[l][other] = admits[l][other]]_vars

\* a client that spent its login limit had a signup let through, and the
\* other client, after it, a login
C8_Witness ==
    /\ hits["login"]["ip1"].count > LoginMax
    /\ Len(admits["signup"]["ip1"]) \in 1..SignupMax
    /\ resp.ip = "ip2"
    /\ resp.op = "login"
    /\ resp.status # 429

(***************************************************************************)
(* CSRF guard                                                              *)
(***************************************************************************)
\* the step is a mutating request from ip with the CSRF header and cookie
\* csrf
MutatingCall(ip, csrf) ==
    /\ resp'.ip = ip
    /\ \/ /\ resp'.op = "signup"
          /\ \E email \in Emails, pw \in PasswordPairs :
                Signup(ip, csrf, email, pw[1], pw[2])
       \/ /\ resp'.op = "login"
          /\ \E email \in Emails \cup {Missing}, password \in PasswordInputs :
                Login(ip, csrf, email, password)
       \/ /\ resp'.op = "forgotPassword"
          /\ \E email \in Emails : ForgotPassword(ip, csrf, email)
       \/ /\ resp'.op = "resetPassword"
          /\ \E token \in ResetTokenInputs, pw \in PasswordPairs :
                ResetPassword(ip, csrf, token, pw[1], pw[2])
       \/ /\ resp'.op = "updatePassword"
          /\ \E token \in TokenInputs, currentPassword \in Passwords,
                pw \in PasswordPairs :
                UpdatePassword(ip, token, csrf, currentPassword, pw[1], pw[2])

\* a mutating request answered by something else than a rate limiter
MutatingRequest(ip, csrf) ==
    /\ resp'.status # 429
    /\ MutatingCall(ip, csrf)

\* C11: a mutating request (signup, login, update-password, forgot-password,
\* reset-password) whose X-CSRF-Token header is absent, empty or different
\* from its XSRF-TOKEN cookie is answered 403, changes no user and issues no
\* session token and no action token.
C11_CsrfGuard ==
    [][\A ip \in ClientIps, csrf \in CsrfInputs :
          (CsrfRejected(csrf) /\ MutatingRequest(ip, csrf))
          => ( /\ resp'.status = 403
               /\ resp'.message = "Invalid CSRF token"
               /\ users' = users
               /\ sessions' = sessions
               /\ nextToken' = nextToken )]_vars

(***************************************************************************)
(* Session validation                                                      *)
(***************************************************************************)
\* the token is signed by the server, unexpired, and its user exists and is
\* active
SignedLiveActive(t) ==
    /\ t.sig = "JWT_SECRET"
    /\ now < t.exp * TicksPerSecond
    /\ t.id \in Ids
    /\ users[t.id].active

\* validity as stated: issuedAt is not before passwordChangedAt
ValidAsStated(t) ==
    /\ SignedLiveActive(t)
    /\ \/ users[t.id].passwordChangedAt = NoDate
       \/ t.iat * TicksPerSecond >= users[t.id].passwordChangedAt

\* validity by whole seconds: issuedAt is not before the second of
\* passwordChangedAt
ValidBySecond(t) ==
    /\ SignedLiveActive(t)
    /\ \/ users[t.id].passwordChangedAt = NoDate
       \/ t.iat >= users[t.id].passwordChangedAt \div TicksPerSecond

\* the step is a request of SpecSession to a protected route, carrying token
ProtectedRequest(token) ==
    /\ resp'.status # 429
    /\ \/ /\ resp'.op = "validateToken"
          /\ ValidateToken(FirstClient, token)
       \/ /\ resp'.op = "updatePassword"
          /\ \E csrf \in RateCsrf, currentPassword \in SessionPasswords,
                newPassword \in SessionPasswords :
                UpdatePassword(FirstClient, token, csrf, currentPassword,
                               newPassword, newPassword)

\* protect refused the request of the step
Unauthenticated ==
    resp'.status = 401 /\ resp'.message = "Authentication failed"

\* C12 as stated: protect accepts a session token if and only if its
\* signature is correct, now < expiresAt, its user exists and is active, and
\* issuedAt >= the user's passwordChangedAt; every rejection is a 401.
C12_AcceptedIffValidAsStated ==
    [][\A token \in TokenInputs :
          ProtectedRequest(token) => (Unauthenticated <=> ~ValidAsStated(token))]_vars

\* C12 amended: protect accepts a session token if and only if its signature
\* is correct, now < expiresAt, its user exists and is active, and issuedAt
\* (whole seconds) is not earlier than the clock second of the user's
\* passwordChangedAt; every rejection is a 401, and validateToken answers 200
\* for an accepted token.
C12_AcceptedIffValidBySecond ==
    [][\A token \in TokenInputs :
          ProtectedRequest(token) =>
             /\ Unauthenticated <=> ~ValidBySecond(token)
             /\ (resp'.op = "validateToken" /\ ValidBySecond(token))
                   => resp'.status = 200]_vars

\* a signed, unexpired token of a user who was deactivated after it was
\* issued has been refused
C12_Witness ==
    /\ resp.op = "validateToken"
    /\ resp.status = 401
    /\ resp.jwt \in sessions
    /\ JwtVerify(resp.jwt)
    /\ users[resp.jwt.id].active = FALSE
    /\ users[resp.jwt.id].passwordChangedAt = NoDate

(***************************************************************************)
(* Account lock                                                            *)
(***************************************************************************)
\* C13 as stated: in every state and for every user, accountLocked = true
\* implies that lockUntil is set and later than the current time.
C13_LockedImpliesFutureLockUntil ==
    \A id \in Ids :
        users[id].accountLocked =>
            (users[id].lockUntil # NoDate /\ users[id].lockUntil > now)

\* C13 amended: in every state and for every user, accountLocked = true
\* implies that lockUntil is set; a step that locks an account or renews its
\* lock sets lockUntil to the current time + 30 minutes. lockUntil may lie in
\* the past while accountLocked is still true.
C13_LockedImpliesLockUntilSet ==
    [][\A id \in Ids :
          /\ users'[id].accountLocked => users'[id].lockUntil # NoDate
          /\ ( \/ users'[id].accountLocked /\ ~users[id].accountLocked
               \/ users'[id].lockUntil # users[id].lockUntil )
             => ( /\ users'[id].accountLocked
                  /\ users'[id].lockUntil = now + Ticks(LockMs)
                  /\ users'[id].lockUntil > now' )]_vars

\* an account is locked and its lock has not run out
C13_Witness ==
    \E id \in Ids :
        /\ users[id].accountLocked
        /\ users[id].loginAttempts >= LockThreshold
        /\ users[id].lockUntil > now

(***************************************************************************)
(* passwordChangedAt                                                       *)
(***************************************************************************)
\* the step is a successful updatePassword or resetPassword of user id
PasswordChangeOf(id) ==
    /\ hits' # hits
    /\ resp'.op \in {"updatePassword", "resetPassword"}
    /\ resp'.status = 200
    /\ resp'.token.id = id

IssuedPlaintexts == 1..(nextToken - 1)

\* a stored token field is empty or the hash of an issued plaintext
HashOnly(field) ==
    /\ field \in {NoToken} \cup {Sha256(t) : t \in IssuedPlaintexts}
    /\ field \notin IssuedPlaintexts

StoredTokensAreHashes ==
    \A id \in Ids : /\ HashOnly(users[id].passwordResetToken)
                    /\ HashOnly(users[id].verificationToken)

\* the step is a successful resetPassword of user id
ResetSucceeded(id) ==
    /\ hits' # hits
    /\ resp'.op = "resetPassword"
    /\ resp'.status = 200
    /\ resp'.token.id = id

\* the step is a resetPassword that presented user id's stored token after
\* its expiry and was answered "Token is invalid or has expired"
ExpiryHandled(id) ==
    /\ hits' # hits
    /\ resp'.op = "resetPassword"
    /\ resp'.status = 400
    /\ resp'.by = "none"
    /\ users[id].passwordResetToken = Sha256(resp'.reqToken)
    /\ users[id].passwordResetExpires <= now

\* C15: in every reachable state the stored reset and verification token
\* fields hold only the hash of an issued plaintext, never the plaintext; the
\* stored reset-token hash is empty after a successful resetPassword and
\* after the token's expiry has been handled.
C15_HashOnlyAndCleared ==
    [][/\ StoredTokensAreHashes'
       /\ \A id \in Ids :
             /\ ResetSucceeded(id) => users'[id].passwordResetToken = NoToken
             /\ ExpiryHandled(id) => users'[id].passwordResetToken = NoToken]_vars

(***************************************************************************)
(* Overlapping failed logins                                               *)
(***************************************************************************)
\* the handleFailedLogin calls on user id that have completed
FailedLoginsDone(id) ==
    {p \in Calls : /\ calls[p].pc = "done"
                   /\ calls[p].op = "handleFailedLogin"
                   /\ calls[p].id = id}

\* C16: under any interleaving of N concurrent failed-login updates on the
\* same user, loginAttempts has increased by exactly N (no lost update), and
\* 5 failed attempts have locked the account however they overlap.
C16_NoLostUpdate ==
    \A id \in Ids :
        /\ users[id].loginAttempts = Cardinality(FailedLoginsDone(id))
        /\ Cardinality(FailedLoginsDone(id)) >= LockThreshold
              => users[id].accountLocked

(***************************************************************************)
(* Overlapping resets                                                      *)
(***************************************************************************)
\* the resetPassword calls that presented plaintext t and succeeded
ResetsSucceeded(t) ==
    {p \in Calls : /\ calls[p].pc = "done"
                   /\ calls[p].op = "resetPassword"
                   /\ calls[p].token = t
                   /\ calls[p].status = 200}

\* C17: under any interleaving of concurrent resetPassword requests that
\* carry the same valid reset-token plaintext, at most one succeeds (changes
\* the password and receives a session token); the others fail with
\* "Token is invalid or has expired".
C17_AtMostOneResetSucceeds ==
    \A t \in ResetTokenInputs : Cardinality(ResetsSucceeded(t)) <= 1

(***************************************************************************)
(* Rate-limited requests                                                   *)
(***************************************************************************)
\* the step is a login request from ip that a limiter in front of the route
\* finds over its limit
LimitedLogin(ip) ==
    /\ LoginFrom(ip)
    /\ RejectedBy(<<"global", "login">>, hits, ip) # "none"

\* C18: a request rejected by the rate limiter is answered 429, leaves every
\* user record unchanged (loginAttempts, accountLocked, lockUntil, token
\* hashes, lastLogin), compares no password and issues no token: rate-limited
\* login attempts never consume lockout state.
C18_RateLimitedChangesNothing ==
    [][\A ip \in ClientIps :
          LimitedLogin(ip) =>
             /\ resp'.status = 429
             /\ resp'.token = NoJwt
             /\ users' = users
             /\ sessions' = sessions
             /\ nextToken' = nextToken
             /\ wrongStreak' = wrongStreak]_vars

\* a login was answered 429 while the account had failed attempts counted
C18_Witness ==
    /\ resp.op = "login"
    /\ resp.status = 429
    /\ resp.by = "login"
    /\ \E id \in Ids : users[id].loginAttempts > 0

(***************************************************************************)
(* Guard ordering                                                          *)
(***************************************************************************)
\* the limiters in front of a route, in the order they run
ChainOf(op) ==
    IF OwnLimiter(op) = "none" THEN <<"global">>
    ELSE <<"global", OwnLimiter(op)>>

\* C19: for every mutating request (signup, login, forgot-password,
\* reset-password, update-password) the rate limiter runs first, then the
\* CSRF guard, and only then the auth service: a request over a limit is
\* answered 429; any other request with a CSRF mismatch is answered 403
\* "Invalid CSRF token", before a session token is verified or the store is
\* read, so it is never answered by the session check or by a handler.
C19_GuardOrdering ==
    [][\A ip \in ClientIps, csrf \in CsrfInputs :
          MutatingCall(ip, csrf) =>
             IF RejectedBy(ChainOf(resp'.op), hits, ip) # "none"
             THEN resp'.status = 429
             ELSE CsrfRejected(csrf) =>
                     /\ resp'.status = 403
                     /\ resp'.message = "Invalid CSRF token"]_vars

(***************************************************************************)
(* Signup                                                                  *)
(***************************************************************************)
\* the step is a signup that created a user
SignedUp ==
    /\ hits' # hits
    /\ resp'.op = "signup"
    /\ resp'.status = 201

Admins(collection) == {i \in DOMAIN collection : collection[i].role = "admin"}

\* C20: every user created by signup has role user and emailVerified false,
\* whatever role the request body carries, holds the hash of a verification
\* token whose expiry is the creation time + 24 h, and receives a session
\* token the server accepts; signup never creates an admin.
C20_SignupCreatesUnverifiedUser ==
    [][/\ SignedUp =>
             \A id \in {Len(users')} :
                /\ Len(users') = Len(users) + 1
                /\ users'[id].role = "user"
                /\ users'[id].emailVerified = FALSE
                /\ users'[id].verificationToken = Sha256(nextToken)
                /\ users'[id].verificationToken # NoToken
                /\ users'[id].verificationExpires = now + Ticks(24 * 60 * 60 * 1000)
                /\ resp'.token.id = id
                /\ resp'.token \in sessions'
                /\ \A t \in sessions' :
                      t = resp'.token => (Protect(t) = id)'
       /\ Admins(users') = Admins(users)]_vars

\* a signup whose body carried role admin has created a user
C20_Witness ==
    /\ resp.op = "signup"
    /\ resp.status = 201
    /\ resp.bodyRole = "admin"
    /\ Len(users) > 1
    /\ users[resp.token.id].verificationToken # NoToken

(***************************************************************************)
(* Successful login                                                        *)
(***************************************************************************)
\* C21: for every existing, active user that is not Locked, a user just
\* created by signup included, a login with the user's email and correct
\* password, with a valid CSRF pair and within the rate limit, succeeds: it
\* issues a session token, sets loginAttempts to 0 and records lastLogin and
\* lastLoginIp.
C21_CorrectPasswordLogsIn ==
    [][\A ip \in ClientIps, csrf \in CsrfInputs, email \in Emails,
          password \in Passwords, id \in UserIds :
          ( /\ LoginAttempt(ip, csrf, email, password, id)
            /\ BcryptCompare(password, users[id].password)
            /\ ~Locked(id) )
          => ( /\ resp'.status = 200
               /\ resp'.token.id = id
               /\ resp'.token \in sessions'
               /\ users'[id].loginAttempts = 0
               /\ users'[id].lastLogin = now
               /\ users'[id].lastLoginIp = ip )]_vars

(***************************************************************************)
(* Validation failures                                                     *)
(***************************************************************************)
\* the step is a request that passes the limiters and the CSRF check and
\* fails validation: a signup without a password, or an updatePassword or
\* resetPassword that reaches the save with a strong new password different
\* from passwordConfirm
ValidationFailure(ip, csrf) ==
    /\ ~CsrfRejected(csrf)
    /\ resp'.ip = ip
    /\ resp'.status # 429
    /\ \/ /\ resp'.op = "signup"
          /\ \E email \in Emails, confirm \in PasswordInputs :
                Signup(ip, csrf, email, Missing, confirm)
       \/ /\ resp'.op = "updatePassword"
          /\ \E token \in TokenInputs, pw \in PasswordPairs :
                /\ Protect(token) # 0
                /\ PasswordRegexTest(pw[1])
                /\ pw[1] # pw[2]
                /\ \E current \in Passwords :
                      /\ BcryptCompare(current, users[Protect(token)].password)
                      /\ UpdatePassword(ip, token, csrf, current, pw[1], pw[2])
       \/ /\ resp'.op = "resetPassword"
          /\ \E token \in ResetTokenInputs, pw \in PasswordPairs :
                /\ FindOneByResetToken(Sha256(token)) # 0
                /\ PasswordRegexTest(pw[1])
                /\ pw[1] # pw[2]
                /\ ResetPassword(ip, csrf, token, pw[1], pw[2])

\* C22: every validation failure is answered 400 and leaves the user store
\* unchanged: a signup with a missing password, and an updatePassword or
\* resetPassword whose new password differs from passwordConfirm, return 400
\* (never 500, never success), and no password hash, reset-token hash or
\* passwordChangedAt changes.
C22_ValidationFailureIs400 ==
    [][\A ip \in ClientIps, csrf \in CsrfInputs :
          ValidationFailure(ip, csrf) =>
             /\ resp'.status = 400
             /\ users' = users]_vars

(***************************************************************************)
(* Anti-enumeration in login                                               *)
(***************************************************************************)
\* the step is a login of SpecEnum from ip that does not present the
\* password of an existing account: the email finds no user, or the password
\* is wrong for the user it finds
LoginWithoutPassword(ip) ==
    /\ resp'.ip = ip
    /\ resp'.op = "login"
    /\ resp'.status # 429
    /\ \E csrf \in RateCsrf, email \in {EmailA, EmailB},
          password \in {PwStrong, PwWeak} :
          /\ \/ FindOneByEmail(email) = 0
             \/ ~BcryptCompare(password, users[FindOneByEmail(email)].password)
          /\ Login(ip, csrf, email, password)

\* C23: a login that does not present the correct password of an existing
\* account gets one and the same 401 "Incorrect email or password" answer,
\* whether the email belongs to a user or not and whatever the locked or
\* unverified status of that user, and changes no user.
C23_LoginAntiEnumeration ==
    [][\A ip \in ClientIps :
          LoginWithoutPassword(ip) =>
             /\ resp' = Resp("login", ip, 401, "Incorrect email or password")
             /\ users' = users
             /\ sessions' = sessions]_vars

\* the answer was given to a wrong password for a locked account, while an
\* unverified account and an email without account exist
C23_Witness ==
    /\ resp = Resp("login", FirstClient, 401, "Incorrect email or password")
    /\ \E id \in Ids :
          /\ Locked(id)
          /\ wrongStreak[id].count > 0
          /\ wrongStreak[id].at = now
    /\ \/ FindOneByEmail(EmailB) = 0
       \/ users[FindOneByEmail(EmailB)].emailVerified = FALSE

(***************************************************************************)
(* Reset-token expiry                                                      *)
(***************************************************************************)
\* the step is a forgotPassword that issued a token
ResetTokenIssued ==
    /\ hits' # hits
    /\ resp'.op = "forgotPassword"
    /\ resp'.status = 200

\* the step is a resetPassword presenting plaintext token, past the limiters
ResetPresented(token) ==
    /\ hits' # hits
    /\ resp'.op = "resetPassword"
    /\ resp'.status # 429
    /\ resp'.reqToken = token

\* an active user holds the hash of the plaintext and its expiry is ahead
Unexpired(token) ==
    \E i \in ActiveIds :
        /\ users[i].passwordResetToken = Sha256(token)
        /\ now < users[i].passwordResetExpires

LoggedOut ==
    /\ hits' # hits
    /\ resp'.op = "logout"
    /\ resp'.status = 200

EventOf(op) ==
    CASE op = "forgotPassword" -> "PASSWORD_RESET_REQUEST"
      [] op = "resetPassword" -> "PASSWORD_RESET"
      [] op = "updatePassword" -> "PASSWORD_CHANGE"

\* the step completes call p with success
Completes(p) ==
    /\ calls[p].pc = "loaded"
    /\ calls'[p].pc = "done"
    /\ calls'[p].status = 200

\* C26: the audit log of a user is an append-only sequence: under any
\* interleaving of operations on the user, every step keeps the recorded
\* events in their order, and each successful operation appends exactly one
\* event of its kind to the events recorded so far; no operation overwrites
\* the event of another.
C26_AuditLogAppendOnly ==
    [][/\ \A id \in Ids :
             /\ Len(users'[id].securityEvents) >= Len(users[id].securityEvents)
             /\ SubSeq(users'[id].securityEvents, 1,
                       Len(users[id].securityEvents)) = users[id].securityEvents
       /\ \A p \in Calls :
             Completes(p) =>
                users'[calls[p].id].securityEvents =
                    Append(users[calls[p].id].securityEvents,
                           EventOf(calls[p].op))]_vars

(***************************************************************************)
(* Weak password on reset                                                  *)
(***************************************************************************)
\* the step is a resetPassword past the limiters that presents a valid,
\* unexpired token with a new password failing the strength rule
WeakReset(token) ==
    /\ FindOneByResetToken(Sha256(token)) # 0
    /\ resp'.op = "resetPassword"
    /\ resp'.status # 429
    /\ resp'.reqToken = token
    /\ \E csrf \in RateCsrf :
          ResetPassword(FirstClient, csrf, token, PwWeak, PwWeak)

\* C27: a resetPassword that presents a valid, unexpired token with a new
\* password failing the strength rule is answered 400 and leaves the stored
\* reset-token hash, its expiry and the password hash unchanged, so the
\* lookup still finds the user by the same token afterwards.
C27_WeakPasswordKeepsToken ==
    [][\A token \in ResetTokenInputs :
          WeakReset(token) =>
             /\ resp'.status = 400
             /\ resp'.token = NoJwt
             /\ users' = users
             /\ (FindOneByResetToken(Sha256(token)))'
                   = FindOneByResetToken(Sha256(token))]_vars

\* a weak password was refused and the token presented with it is still
\* found
C27_Witness ==
    /\ resp.op = "resetPassword"
    /\ resp.status = 400
    /\ resp.message = "Password too weak"
    /\ FindOneByResetToken(Sha256(resp.reqToken)) # 0

(***************************************************************************)
(* One reset token per user                                                *)
(***************************************************************************)
\* in SpecWeak every token is issued to the provisioned account: plaintext
\* token was issued and a later one was issued after it
Superseded(token) ==
    /\ token \in IssuedPlaintexts
    /\ token + 1 \in IssuedPlaintexts

\* C28: a user holds at most one valid reset token: a forgotPassword for a
\* user overwrites the stored hash and expiry, so after it resetPassword
\* finds the user by the newest plaintext only, and a resetPassword with an
\* earlier plaintext is answered 400 "Token is invalid or has expired".
C28_OnlyNewestTokenValid ==
    [][/\ ResetTokenIssued =>
             \E id \in Ids :
                /\ users'[id].passwordResetToken = Sha256(nextToken)
                /\ \A newest \in {nextToken} :
                      (FindOneByResetToken(Sha256(newest)))' = id
                /\ \A t \in IssuedPlaintexts :
                      (FindOneByResetToken(Sha256(t)))' = 0
       /\ \A token \in ResetTokenInputs :
             ResetPresented(token) /\ Superseded(token) =>
                /\ resp'.status = 400
                /\ resp'.message = "Token is invalid or has expired"
                /\ users' = users]_vars

\* the first plaintext was presented after a second was issued, and refused
C28_Witness ==
    /\ resp.op = "resetPassword"
    /\ resp.status = 400
    /\ resp.reqToken = 1
    /\ \E i \in Ids :
          /\ users[i].passwordResetToken = Sha256(2)
          /\ users[i].passwordResetExpires > now

(***************************************************************************)
(* Password-reset budget                                                   *)
(***************************************************************************)
\* the step is a forgot-password or reset-password request of SpecBudget
BudgetRequest ==
    /\ resp'.ip = FirstClient
    /\ \/ resp'.op = "forgotPassword" /\ BudgetForgot
       \/ resp'.op = "resetPassword" /\ SessionResetPassword

\* C29: forgot-password and reset-password draw from one budget of 3
\* requests per hour and client IP: a request to either is answered 429
\* exactly when 3 requests of the IP to the two endpoints, in any mix, were
\* let through in the running window.
C29_SharedResetBudget ==
    [][BudgetRequest =>
          /\ resp'.status = 429 <=> Spent("passwordReset", FirstClient)
          /\ resp'.status = 429 =>
                /\ resp'.by = "passwordReset"
                /\ users' = users
                /\ sessions' = sessions]_vars

\* a reset-password was refused by the limiter while a token was pending and
\* none had been consumed: the budget was spent by forgot-password requests
\* and refused resets
C29_Witness ==
    /\ resp.op = "resetPassword"
    /\ resp.status = 429
    /\ resp.by = "passwordReset"
    /\ consumed = {}
    /\ \E i \in Ids : /\ users[i].passwordResetToken # NoToken
                      /\ users[i].passwordResetExpires > now

(***************************************************************************)
(* Password changes and the lockout state                                  *)
(***************************************************************************)
\* C30: a resetPassword with a valid token succeeds with a session token
\* whatever the lockout and verification state of the account, and a
\* successful resetPassword or updatePassword leaves loginAttempts,
\* accountLocked, lockUntil and emailVerified unchanged; the token it returns
\* is accepted, for a Locked account too.
C30_PasswordChangeKeepsLockout ==
    [][/\ \A token \in ResetTokenInputs :
             ResetPresented(token) /\ Unexpired(token) => resp'.status = 200
       /\ \A id \in Ids :
             PasswordChangeOf(id) =>
                /\ users'[id].loginAttempts = users[id].loginAttempts
                /\ users'[id].accountLocked = users[id].accountLocked
                /\ users'[id].lockUntil = users[id].lockUntil
                /\ users'[id].emailVerified = users[id].emailVerified
                /\ \A t \in sessions' :
                      t = resp'.token => (Protect(t) = id)']_vars

\* a resetPassword has returned a session token for an account that is
\* Locked, and protect accepts the token
C30_Witness ==
    /\ resp.op = "resetPassword"
    /\ resp.status = 200
    /\ Locked(resp.token.id)
    /\ Protect(resp.token) = resp.token.id

====
